---- MODULE Spec2Model ----
(***************************************************************************)
(* Jaw controller bridge: a PLC data block (snap7) or a one-byte UDP       *)
(* datagram drives one Dynamixel servo.                                    *)
(*                                                                         *)
(*   src/services/jaw_snap7_dynamixel.py   PLC variant  (variables below)  *)
(*   src/jaw_udp_dynamixel.py              UDP variant  (variables u_...)  *)
(*                                                                         *)
(* Degrees are Python floats in the source.  Every degree value the        *)
(* program computes is sw_min + (k/den) * (sw_max - sw_min) with integer   *)
(* k, so it is carried here as an exact fraction num/den; round() is       *)
(* Python 3's round-half-to-even and int() truncates toward zero.          *)
(***************************************************************************)
EXTENDS Integers, Sequences, FiniteSets, TLC

VARIABLES
    pc,              \* position of main() of the PLC variant
    args,            \* argparse namespace (fixed after parse_args)
    vel_lim, acc_lim,        \* hardware limits read at startup
    min_ticks, max_ticks,
    last_seq,        \* Optional[int]; None is the value None
    torque_enabled,
    cmd,             \* the decoded command of this cycle
    fb,              \* feedback reads and their normalised values
    sts,             \* the status block last built
    log,             \* servo / PLC transactions of this cycle (of startup before the loop)
    \* history (not program state): what the properties are stated over
    cmd_read_ok,     \* did this cycle's plc.db_read succeed
    pre,             \* gate state at the start of this cycle
    prev,            \* observed enable / cmd_seq and goal writes of the previous cycle
    seq_goals,       \* goal / profile writes issued since last_seq last changed
    accepted,        \* cmd_seq of the most recently applied command (None before)
    lkg,             \* normalised feedback of the last cycle whose read succeeded, per register
    mon, en_hist, n_on, n_off,     \* the first cycles after startup, while they follow EnablePattern
    clk,             \* time since loop_t0 (ms) and the timing of the iterations before
    \* UDP variant
    u_pc, u_args, u_min_ticks, u_max_ticks, last_b, u_data, u_log,
    u_last_ok,       \* history: did the most recent goal write of the UDP variant succeed
    \* the two deg_to_tick functions applied to one degree value
    conv

vars == <<pc, args, vel_lim, acc_lim, min_ticks, max_ticks, last_seq, torque_enabled,
          cmd, fb, sts, log, cmd_read_ok, pre, prev, seq_goals, accepted, lkg,
          mon, en_hist, n_on, n_off, clk,
          u_pc, u_args, u_min_ticks, u_max_ticks, last_b, u_data, u_log, u_last_ok, conv>>

plcVars == <<pc, args, vel_lim, acc_lim, min_ticks, max_ticks, last_seq, torque_enabled,
             cmd, fb, sts, log, cmd_read_ok, pre, prev, seq_goals, accepted, lkg,
             mon, en_hist, n_on, n_off, clk>>

udpVars == <<u_pc, u_args, u_min_ticks, u_max_ticks, last_b, u_data, u_log, u_last_ok>>

-----------------------------------------------------------------------------
(* Bounds of the model *)

MaxSeq  == 2     \* cmd_seq values 0..MaxSeq are observed (a lower value after a higher one is the wrap)
DegDen  == 100   \* degree values are drawn in steps of 1 / DegDen
MaxTurn == 2     \* from -360 degrees up to MaxTurn * 360 degrees
MaxElapsed == 25 \* the work of one iteration takes at most MaxElapsed ms

-----------------------------------------------------------------------------
(* Program constants *)

TICKS_PER_REV == 4096
TORQUE_ON     == 1
TORQUE_OFF    == 0
OPERATING_MODE_POSITION == 3
scale         == 1000
None          == -1      \* Python's None (last_seq, last_b before the first command)
I16_MIN       == -32768  \* range of the ">h" fields of the command block
I16_MAX       == 32767
dt            == 10      \* 1.0 / args.hz with the default --hz 100, in ms

-----------------------------------------------------------------------------
(* Pure helpers *)

clamp(x, lo, hi) == IF x < lo THEN lo ELSE IF x > hi THEN hi ELSE x

Min2(a, b) == IF a < b THEN a ELSE b
Max2(a, b) == IF a > b THEN a ELSE b
Abs(x)     == IF x < 0 THEN -x ELSE x

\* Python round(a/b) for a >= 0, b > 0: nearest integer, ties to the even one
Round(a, b) ==
    LET q == a \div b
        r == a % b
    IN  IF 2 * r < b THEN q
        ELSE IF 2 * r > b THEN q + 1
        ELSE IF q % 2 = 0 THEN q ELSE q + 1

\* Python int(a/b), b > 0: truncation toward zero
Trunc(a, b) == IF a >= 0 THEN a \div b ELSE -((-a) \div b)

\* the conversion without the modulo of line 68
deg_to_tick_nowrap(num, den) == Round(num * TICKS_PER_REV, 360 * den)

\* deg_to_tick of the PLC variant, deg = num/den
deg_to_tick(num, den) == Round((num % (360 * den)) * TICKS_PER_REV, 360 * den)

\* deg_to_tick of the UDP variant: the same, limited to 0..4095
u_deg_to_tick(num, den) ==
    Max2(0, Min2(4095, Round((num % (360 * den)) * TICKS_PER_REV, 360 * den)))

sw_min(a) == Min2(a.min_deg, a.max_deg)
sw_max(a) == Max2(a.min_deg, a.max_deg)

-----------------------------------------------------------------------------
(* Setpoint scaling (main, step 3) and feedback normalisation (step 4) *)

\* a setpoint taken as it comes, without the clamp of lines 236-238
unit_unclamped(sp) == sp

\* lines 236-238: clamp(sp, 0, 1000), before the division by scale
unit(sp) == clamp(sp, 0, scale)

\* the degrees of a setpoint without the inversion of line 241
goal_deg_noinvert(a, pos_sp, invert) == 1000 * sw_min(a) + unit(pos_sp) * (sw_max(a) - sw_min(a))

\* deg * 1000 for a position setpoint: sw_min + pos_u * (sw_max - sw_min), pos_u
\* replaced by (1.0 - pos_u) when jaw_invert is set
goal_deg(a, pos_sp, invert) ==
    LET pos_k == unit(pos_sp)
    IN  1000 * sw_min(a)
          + (IF invert THEN 1000 - pos_k ELSE pos_k) * (sw_max(a) - sw_min(a))

goal_ticks(a, pos_sp, invert, lo, hi) ==
    clamp(deg_to_tick(goal_deg(a, pos_sp, invert), scale), lo, hi)

\* clamp(int(floor + u * (lim - floor)), floor, lim) with u = clamp(sp, 0, 1000) / scale.
\* The float product can fall just short of the exact one, so that int() gives one less
\* than Trunc here (floor 0, limit 50000, setpoint 285: 14249 for 14250); on the
\* setpoints, floors and limits the model draws the two agree.
profile(floor, sp, lim) ==
    clamp(Trunc(scale * floor + unit(sp) * (lim - floor), scale), floor, lim)

\* the velocity feedback without the clamp of line 270
vel_fb_unclamped(raw, lim) == Round(Abs(raw) * 1000, Max2(1, lim))

\* int(clamp(round((abs(raw) / max(1, vel_lim)) * 1000.0), 0, 1000))
vel_fb_scaled(raw, lim) == clamp(Round(Abs(raw) * 1000, Max2(1, lim)), 0, 1000)

\* tick_to_deg(ticks) * 4096
tick_to_deg(ticks) == (ticks % 4096) * 360

\* the normalisation without the inversion of line 279
jaw_pos_fb_noinvert(a, ticks, invert) ==
    LET lo  == sw_min(a) * TICKS_PER_REV
        hi  == sw_max(a) * TICKS_PER_REV
        den == IF hi > lo THEN hi - lo ELSE 1
        u   == IF hi > lo THEN clamp(tick_to_deg(ticks), lo, hi) - lo ELSE 0
    IN  clamp(Round(u * 1000, den), 0, 1000)

\* lines 273-280
jaw_pos_fb(a, ticks, invert) ==
    LET lo  == sw_min(a) * TICKS_PER_REV
        hi  == sw_max(a) * TICKS_PER_REV
        den == IF hi > lo THEN hi - lo ELSE 1
        u   == IF hi > lo THEN clamp(tick_to_deg(ticks), lo, hi) - lo ELSE 0
        v   == IF invert THEN den - u ELSE u
    IN  clamp(Round(v * 1000, den), 0, 1000)

-----------------------------------------------------------------------------
(* Command gate (main, steps 2 and 3) *)

\* variants of the gate with one condition dropped or changed
torque_off_level(enable, te) == ~enable
torque_on_level(enable, te)  == enable
is_new_cmd_any_seq(enable, cmd_seq, last)    == enable
is_new_cmd_increasing(enable, cmd_seq, last) == enable /\ (last = None \/ cmd_seq > last)
is_new_cmd_ungated(enable, cmd_seq, last)    == last = None \/ cmd_seq # last
next_last_seq_observed(new, cmd_seq, last)   == cmd_seq
next_last_seq_kept(new, cmd_seq, last)       == last
is_new_cmd_once(enable, cmd_seq, last)       == enable /\ last = None

\* line 226 / 229: which torque write the gating step issues
torque_off_due(enable, te) == ~enable /\ te
torque_on_due(enable, te)  == enable /\ ~te

\* line 234
is_new_cmd(enable, cmd_seq, last) == enable /\ (last = None \/ cmd_seq # last)

\* line 257, inside the branch of line 234
next_last_seq(new, cmd_seq, last) == IF new THEN cmd_seq ELSE last

\* line 286
ack_seq(last) == IF last # None THEN last ELSE 0

\* hw_ok from the two feedback reads alone
hw_ok_reads_only(rcP, rcV, te) == rcP /\ rcV

\* line 288
hw_ok(rcP, rcV, te) == rcP /\ rcV /\ te

-----------------------------------------------------------------------------
(* Inputs of the model *)

\* argparse defaults (lines 111-120), and a namespace with the degree range given
\* in reverse, equal floors above the smallest limit registers
DefaultArgs ==
    [min_deg |-> 200, max_deg |-> 245, vel_floor |-> 1, acc_floor |-> 1,
     prof_acc_default |-> 30000, prof_vel_default |-> 50000, watchdog_20ms |-> 3]

OtherArgs ==
    [min_deg |-> 350, max_deg |-> 10, vel_floor |-> 5, acc_floor |-> 5,
     prof_acc_default |-> 30000, prof_vel_default |-> 50000, watchdog_20ms |-> 0]

ArgSet == {DefaultArgs, OtherArgs}

\* a namespace whose degree range is one point (--min_deg 220 --max_deg 220)
FlatArgs ==
    [min_deg |-> 220, max_deg |-> 220, vel_floor |-> 1, acc_floor |-> 1,
     prof_acc_default |-> 30000, prof_vel_default |-> 50000, watchdog_20ms |-> 3]

\* register values the limit reads return (unsigned)
VelLimRegs == {0, 1023}
AccLimRegs == {2, 32767}
MaxPosRegs == {4095, 2400}
MinPosRegs == {0, 2600}

SeqVals == 0 .. MaxSeq
PosSp   == {-5, 250, 1000, 1200}
VelSp   == {0, 600, 1200}
AccSp   == {-5, 500}

\* commands of the gate runs: one setpoint triple, every enable / invert / cmd_seq
GateCmds == [pos : {250}, vel : {600}, acc : {500}, invert : BOOLEAN, enable : BOOLEAN,
             seq : SeqVals]

\* commands of the scaling runs: setpoints in and out of 0..1000, always enabled
ScaleCmds == [pos : PosSp, vel : VelSp, acc : AccSp, invert : BOOLEAN, enable : {TRUE},
              seq : {0, 1}]

\* commands of the sweep runs: every position setpoint of 0..1000 and the ends of the
\* signed 16-bit range with one profile, and one position with profile setpoints in
\* and out of 0..1000
SweepPos  == (0 .. scale) \cup {I16_MIN, -1, scale + 1, I16_MAX}
SweepProf == {I16_MIN, -1, 0, 500, scale, scale + 1, I16_MAX}
SweepCmds ==
    [pos : SweepPos, vel : {600}, acc : {500}, invert : BOOLEAN, enable : {TRUE},
     seq : {0, 1}]
    \cup
    [pos : {250}, vel : SweepProf, acc : SweepProf, invert : BOOLEAN, enable : {TRUE},
     seq : {0, 1}]

\* bytes(12), the buffer substituted when plc.db_read raises (line 216)
ZeroCmd == [pos |-> 0, vel |-> 0, acc |-> 0, invert |-> FALSE, enable |-> FALSE, seq |-> 0]

\* present position / present velocity register values
PosFbRegs == {2500}
VelFbRegs == {300}

\* the same over the register's range: below, inside and above the degree ranges,
\* beyond one turn, the largest value; a velocity in either direction
WidePosFbRegs == {0, 1, 2276, 2500, 2788, 4095, 4096, 2147483647}
WideVelFbRegs == {-300, 0, 300, 1023, 2000000}

\* commands of the timing runs
TimeCmds == [pos : {250}, vel : {600}, acc : {500}, invert : {FALSE}, enable : {TRUE},
             seq : {0, 1}]

\* commands of the feedback runs
FeedCmds == [pos : {250}, vel : {600}, acc : {500}, invert : BOOLEAN, enable : BOOLEAN,
             seq : {0}]

Op(o, v, k) == [op |-> o, val |-> v, ok |-> k]

NoFb   == [pos_ticks |-> 0, rcP |-> FALSE, vel_raw |-> 0, rcV |-> FALSE, pos |-> 0, vel |-> 0]
NoSts  == [pos_fb |-> 0, vel_fb |-> 0, ack_seq |-> 0, hw_ok |-> FALSE, sw_ok |-> FALSE,
           written |-> FALSE]
NoPrev == [valid |-> FALSE, read_ok |-> FALSE, enable |-> FALSE, seq |-> 0, goals |-> 0,
           goal_failed |-> FALSE, torque_failed |-> FALSE]
NoLkg  == [pos_valid |-> FALSE, pos |-> 0, vel_valid |-> FALSE, vel |-> 0]
NoClk  == [elapsed |-> 0, last_elapsed |-> 0, slept |-> 0, interval |-> 0,
           over |-> FALSE, prev_over |-> FALSE]

\* how long one stage of an iteration can take, in ms
Durations == {3, 7}

\* the enable sequence whose torque writes are counted from the start of the loop
EnablePattern == <<FALSE, TRUE, TRUE, FALSE>>

Follows(h, e) == Len(h) < Len(EnablePattern) /\ e = EnablePattern[Len(h) + 1]

Count(l, o) == Cardinality({i \in 1 .. Len(l) : l[i].op = o})

-----------------------------------------------------------------------------
(* PLC variant: startup (main, lines 167-205) *)

UdpIdle == UNCHANGED <<udpVars, conv>>

Hist == <<cmd_read_ok, pre, prev, seq_goals, accepted, lkg, mon, en_hist, n_on, n_off, clk>>

InitPlc(A) ==
    /\ pc = "init_torque_off"
    /\ args \in A
    /\ vel_lim = 0 /\ acc_lim = 0 /\ min_ticks = 0 /\ max_ticks = 0
    /\ last_seq = None /\ torque_enabled = FALSE
    /\ cmd = ZeroCmd /\ fb = NoFb /\ sts = NoSts /\ log = <<>>
    /\ cmd_read_ok = FALSE
    /\ pre = [torque_enabled |-> FALSE, last_seq |-> None]
    /\ prev = NoPrev /\ seq_goals = [goal |-> 0, prof |-> 0] /\ accepted = None /\ lkg = NoLkg
    /\ mon = TRUE /\ en_hist = <<>> /\ n_on = 0 /\ n_off = 0
    /\ clk = NoClk

\* line 168
InitTorqueOff ==
    /\ pc = "init_torque_off"
    /\ \E ok \in BOOLEAN : log' = Append(log, Op("torque", TORQUE_OFF, ok))
    /\ pc' = "set_mode"
    /\ UNCHANGED <<args, vel_lim, acc_lim, min_ticks, max_ticks, last_seq, torque_enabled,
                   cmd, fb, sts>>
    /\ UNCHANGED Hist /\ UdpIdle

\* line 169
SetMode ==
    /\ pc = "set_mode"
    /\ \E ok \in BOOLEAN : log' = Append(log, Op("mode", OPERATING_MODE_POSITION, ok))
    /\ pc' = "read_limits"
    /\ UNCHANGED <<args, vel_lim, acc_lim, min_ticks, max_ticks, last_seq, torque_enabled,
                   cmd, fb, sts>>
    /\ UNCHANGED Hist /\ UdpIdle

\* lines 177-181 without the swap of lines 182-183
pos_limits_noswap(maxReg, rc1, minReg, rc2) ==
    IF rc1 /\ rc2 THEN <<minReg, maxReg>> ELSE <<0, 4095>>

\* lines 177-183: both position limits fall back together, then an inverted pair is swapped
pos_limits(maxReg, rc1, minReg, rc2) ==
    LET lo == IF rc1 /\ rc2 THEN minReg ELSE 0
        hi == IF rc1 /\ rc2 THEN maxReg ELSE 4095
    IN  IF lo > hi THEN <<hi, lo>> ELSE <<lo, hi>>

\* lines 172-183
\* VR, AR, MX, MN: register values; F: can a read fail
ReadLimits(VR, AR, MX, MN, F) ==
    /\ pc = "read_limits"
    /\ \E v \in VR, a \in AR, mx \in MX, mn \in MN,
          rcv \in F, rca \in F, rc1 \in F, rc2 \in F :
            /\ vel_lim' = IF rcv THEN v ELSE args.prof_vel_default
            /\ acc_lim' = IF rca THEN a ELSE args.prof_acc_default
            /\ min_ticks' = pos_limits(mx, rc1, mn, rc2)[1]
            /\ max_ticks' = pos_limits(mx, rc1, mn, rc2)[2]
            /\ log' = log \o <<Op("read_vel_lim", v, rcv), Op("read_acc_lim", a, rca),
                               Op("read_max_pos", mx, rc1), Op("read_min_pos", mn, rc2)>>
    /\ pc' = "init_profile"
    /\ UNCHANGED <<args, last_seq, torque_enabled, cmd, fb, sts>>
    /\ UNCHANGED Hist /\ UdpIdle

\* lines 186-189
InitProfile ==
    /\ pc = "init_profile"
    /\ log' = log \o
         <<Op("prof_vel", clamp(args.prof_vel_default, args.vel_floor, vel_lim), TRUE),
           Op("prof_acc", clamp(args.prof_acc_default, args.acc_floor, acc_lim), TRUE)>>
    /\ pc' = "init_torque_on"
    /\ UNCHANGED <<args, vel_lim, acc_lim, min_ticks, max_ticks, last_seq, torque_enabled,
                   cmd, fb, sts>>
    /\ UNCHANGED Hist /\ UdpIdle

\* lines 191-205
InitTorqueOn ==
    /\ pc = "init_torque_on"
    /\ \E ok \in BOOLEAN :
         log' = log \o (IF args.watchdog_20ms > 0
                        THEN <<Op("watchdog", args.watchdog_20ms, TRUE)>> ELSE <<>>)
                    \o <<Op("torque", TORQUE_ON, ok)>>
    /\ last_seq' = None
    /\ torque_enabled' = TRUE
    /\ pc' = "read_cmd"
    /\ UNCHANGED <<args, vel_lim, acc_lim, min_ticks, max_ticks, cmd, fb, sts>>
    /\ UNCHANGED Hist /\ UdpIdle

-----------------------------------------------------------------------------
(* PLC variant: one iteration of the main loop (lines 208-302).  The result of a  *)
(* servo write is only printed by dx_ok, so it is kept (in log) for the torque    *)
(* and goal writes alone.                                                          *)

\* step 1, lines 209-223.  C: the commands the data block can hold; F: can db_read raise
ReadCmd(C, F) ==
    /\ pc = "read_cmd"
    /\ \E ok \in F, c \in C :
         /\ cmd' = IF ok THEN c ELSE ZeroCmd
         /\ cmd_read_ok' = ok
         /\ log' = <<Op("cmd_read", 0, ok)>>
    /\ pre' = [torque_enabled |-> torque_enabled, last_seq |-> last_seq]
    /\ clk' = [clk EXCEPT !.elapsed = 0]
    /\ pc' = "gate"
    /\ UNCHANGED <<args, vel_lim, acc_lim, min_ticks, max_ticks, last_seq, torque_enabled,
                   fb, sts, prev, seq_goals, accepted, lkg, mon, en_hist, n_on, n_off>>
    /\ UdpIdle

\* the flag taking the new value only when the torque write succeeded
gate_flag_on_success(due, ok, new, old) == IF due /\ ok THEN new ELSE old

\* lines 228 / 231: the flag is assigned right after the write, whatever dx_ok returned
gate_flag(due, ok, new, old) == IF due THEN new ELSE old

\* step 2, lines 225-231
Gate(F) ==
    /\ pc = "gate"
    /\ \E ok \in F :
         LET off == torque_off_due(cmd.enable, torque_enabled)
             te1 == gate_flag(off, ok, FALSE, torque_enabled)
             on  == torque_on_due(cmd.enable, te1)
             te2 == gate_flag(on, ok, TRUE, te1)
         IN  /\ log' = log \o (IF off THEN <<Op("torque", TORQUE_OFF, ok)>> ELSE <<>>)
                            \o (IF on  THEN <<Op("torque", TORQUE_ON, ok)>>  ELSE <<>>)
             /\ torque_enabled' = te2
    /\ LET off == torque_off_due(cmd.enable, torque_enabled)
           on  == torque_on_due(cmd.enable, IF off THEN FALSE ELSE torque_enabled)
       IN
           IF mon /\ Follows(en_hist, cmd.enable)
             THEN /\ en_hist' = Append(en_hist, cmd.enable)
                  /\ n_off' = n_off + (IF off THEN 1 ELSE 0)
                  /\ n_on'  = n_on  + (IF on  THEN 1 ELSE 0)
                  /\ UNCHANGED mon
             ELSE mon' = FALSE /\ en_hist' = <<>> /\ n_on' = 0 /\ n_off' = 0
    /\ pc' = "apply"
    /\ UNCHANGED <<args, vel_lim, acc_lim, min_ticks, max_ticks, last_seq, cmd, fb, sts,
                   cmd_read_ok, pre, prev, seq_goals, accepted, lkg>>
    /\ UNCHANGED clk
    /\ UdpIdle

\* the three writes with the goal position first
apply_writes_goal_first(pv, pa, g, ok) ==
    <<Op("goal", g, ok), Op("prof_vel", pv, TRUE), Op("prof_acc", pa, TRUE)>>

\* lines 251-253: profile velocity, profile acceleration, goal position
apply_writes(pv, pa, g, ok) ==
    <<Op("prof_vel", pv, TRUE), Op("prof_acc", pa, TRUE), Op("goal", g, ok)>>

\* step 3, lines 233-257
Apply(F) ==
    /\ pc = "apply"
    /\ LET new == is_new_cmd(cmd.enable, cmd.seq, last_seq)
           nls == next_last_seq(new, cmd.seq, last_seq)
       IN  /\ IF new
                THEN \E ok \in F :
                       /\ log' = log \o
                            apply_writes(profile(args.vel_floor, cmd.vel, vel_lim),
                                         profile(args.acc_floor, cmd.acc, acc_lim),
                                         goal_ticks(args, cmd.pos, cmd.invert,
                                                    min_ticks, max_ticks), ok)
                       /\ accepted' = cmd.seq
                       /\ seq_goals' = IF nls # last_seq
                                         THEN [goal |-> 1, prof |-> 2]
                                         ELSE [goal |-> Min2(seq_goals.goal + 1, 2),
                                               prof |-> Min2(seq_goals.prof + 2, 4)]
                ELSE UNCHANGED <<log, accepted, seq_goals>>
           /\ last_seq' = nls
    /\ pc' = "feedback"
    /\ UNCHANGED <<args, vel_lim, acc_lim, min_ticks, max_ticks, torque_enabled, cmd, fb, sts,
                   cmd_read_ok, pre, prev, lkg, mon, en_hist, n_on, n_off>>
    /\ UNCHANGED clk
    /\ UdpIdle

\* the value a failed feedback read leaves in pos_fb_ticks / vel_fb_raw (lines 262, 266)
fb_default(reg, rc) == IF rc THEN reg ELSE 0

\* step 4, lines 259-280.  P, V: register values; F: can a read fail.  The last
\* successfully read feedback (lkg) is recorded in the runs in which a read can fail.
Feedback(P, V, F) ==
    /\ pc = "feedback"
    /\ \E p \in P, v \in V, rcP \in F, rcV \in F :
         LET pt == fb_default(p, rcP)
             vr == fb_default(v, rcV)
             f  == [pos_ticks |-> pt, rcP |-> rcP, vel_raw |-> vr, rcV |-> rcV,
                    pos |-> jaw_pos_fb(args, pt, cmd.invert),
                    vel |-> vel_fb_scaled(vr, vel_lim)]
         IN  /\ fb' = f
             /\ log' = log \o <<Op("read_pos", p, rcP), Op("read_vel", v, rcV)>>
             /\ lkg' = IF FALSE \in F
                        THEN [pos_valid |-> lkg.pos_valid \/ rcP,
                              pos |-> IF rcP THEN f.pos ELSE lkg.pos,
                              vel_valid |-> lkg.vel_valid \/ rcV,
                              vel |-> IF rcV THEN f.vel ELSE lkg.vel]
                        ELSE lkg
    /\ pc' = "status"
    /\ UNCHANGED <<args, vel_lim, acc_lim, min_ticks, max_ticks, last_seq, torque_enabled,
                   cmd, sts, cmd_read_ok, pre, prev, seq_goals, accepted, mon,
                   en_hist, n_on, n_off>>
    /\ UNCHANGED clk
    /\ UdpIdle

\* step 5, lines 282-296.  set_u32_be(sts, 8, now_ms()) raises struct.error when the
\* millisecond clock does not fit 32 bits: the exception is not caught and main ends.
\* T: does now_ms() fit; the outcome of plc.db_write is only printed.
Status(T) ==
    /\ pc = "status"
    /\ \E fits \in T :
         IF fits
           THEN /\ sts' = [pos_fb |-> fb.pos, vel_fb |-> fb.vel, ack_seq |-> ack_seq(last_seq),
                           hw_ok |-> hw_ok(fb.rcP, fb.rcV, torque_enabled), sw_ok |-> TRUE,
                           written |-> TRUE]
                /\ log' = Append(log, Op("status", 0, TRUE))
                /\ pc' = "sleep"
           ELSE /\ pc' = "crashed"
                /\ UNCHANGED <<sts, log>>
    /\ UNCHANGED <<args, vel_lim, acc_lim, min_ticks, max_ticks, last_seq, torque_enabled,
                   cmd, fb, cmd_read_ok, pre, prev, seq_goals, accepted, lkg, mon,
                   en_hist, n_on, n_off>>
    /\ UNCHANGED clk
    /\ UdpIdle

\* a sleep of the whole period, whatever the iteration took
sleep_t_whole(period, elapsed) == period

\* line 300
sleep_t(period, elapsed) == period - elapsed

\* lines 301-302: the time passed in time.sleep
slept(period, elapsed) == IF sleep_t(period, elapsed) > 0 THEN sleep_t(period, elapsed) ELSE 0

\* time passes while a stage of the running iteration is at work (a PLC or servo
\* transaction blocks): the perf_counter of line 299 is D later.  The startup and the
\* first command read are not timed.
Elapse(D) ==
    /\ pc \in {"gate", "apply", "feedback", "status", "sleep"}
    /\ \E d \in D :
         /\ clk.elapsed + d <= MaxElapsed
         /\ clk' = [clk EXCEPT !.elapsed = @ + d]
    /\ UNCHANGED <<pc, args, vel_lim, acc_lim, min_ticks, max_ticks, last_seq,
                   torque_enabled, cmd, fb, sts, log, cmd_read_ok, pre, prev, seq_goals,
                   accepted, lkg, mon, en_hist, n_on, n_off>>
    /\ UdpIdle

\* step 6, lines 298-302, and back to line 208.  The locals of the finished iteration
\* are dead (each is assigned again before it is read), so they are cleared here.
Sleep ==
    /\ pc = "sleep"
    /\ prev' = [valid |-> TRUE, read_ok |-> cmd_read_ok, enable |-> cmd.enable,
                seq |-> cmd.seq, goals |-> Count(log, "goal"),
                goal_failed |-> \E i \in 1 .. Len(log) : log[i].op = "goal" /\ ~log[i].ok,
                torque_failed |-> \E i \in 1 .. Len(log) : log[i].op = "torque" /\ ~log[i].ok]
    /\ cmd' = ZeroCmd /\ fb' = NoFb /\ sts' = NoSts /\ log' = <<>>
    /\ cmd_read_ok' = FALSE
    /\ pc' = "read_cmd"
    /\ pre' = [torque_enabled |-> FALSE, last_seq |-> None]
    /\ LET t == slept(dt, clk.elapsed)
       IN  clk' = [elapsed |-> 0, last_elapsed |-> clk.elapsed, slept |-> t,
                   interval |-> clk.elapsed + t,
                   over |-> clk.elapsed > dt, prev_over |-> clk.over]
    /\ UNCHANGED <<args, vel_lim, acc_lim, min_ticks, max_ticks, last_seq, torque_enabled,
                   seq_goals, accepted, lkg, mon, en_hist, n_on, n_off>>
    /\ UdpIdle

\* the handler of SIGINT / SIGTERM is installed at lines 164-165, before the first
\* servo write, and stays installed while main runs
HandlerInstalled ==
    pc \in {"init_torque_off", "set_mode", "read_limits", "init_profile", "init_torque_on",
            "read_cmd", "gate", "apply", "feedback", "status", "sleep"}

\* cleanup without the try / except around each step: the first step that raises ends it
cleanup_unguarded(k1, k2, k3) ==
    IF ~k1 THEN <<Op("torque", TORQUE_OFF, FALSE)>>
    ELSE IF ~k2 THEN <<Op("torque", TORQUE_OFF, TRUE), Op("close_port", 0, FALSE)>>
    ELSE IF ~k3 THEN <<Op("torque", TORQUE_OFF, TRUE), Op("close_port", 0, TRUE),
                       Op("plc_disconnect", 0, FALSE)>>
    ELSE <<Op("torque", TORQUE_OFF, TRUE), Op("close_port", 0, TRUE),
           Op("plc_disconnect", 0, TRUE), Op("exit", 0, TRUE)>>

\* lines 155-162: each step in its own try / except: pass, then sys.exit(0).
\* k1, k2, k3: did the step return normally (a write that fails or raises is FALSE)
cleanup(k1, k2, k3) ==
    <<Op("torque", TORQUE_OFF, k1), Op("close_port", 0, k2),
      Op("plc_disconnect", 0, k3), Op("exit", 0, TRUE)>>

\* a termination signal is delivered: cleanup runs in the main thread and the process
\* ends, so every local of main is gone (lines 155-165)
Signal ==
    /\ HandlerInstalled
    /\ \E k1 \in BOOLEAN, k2 \in BOOLEAN, k3 \in BOOLEAN :
         log' = <<Op("signal", 0, TRUE)>> \o cleanup(k1, k2, k3)
    /\ pc' = "exited"
    /\ last_seq' = None /\ torque_enabled' = FALSE
    /\ cmd' = ZeroCmd /\ fb' = NoFb /\ sts' = NoSts
    /\ cmd_read_ok' = FALSE
    /\ pre' = [torque_enabled |-> FALSE, last_seq |-> None]
    /\ prev' = NoPrev /\ seq_goals' = [goal |-> 0, prof |-> 0] /\ accepted' = None
    /\ lkg' = NoLkg
    /\ mon' = FALSE /\ en_hist' = <<>> /\ n_on' = 0 /\ n_off' = 0
    /\ clk' = NoClk
    /\ UNCHANGED <<args, vel_lim, acc_lim, min_ticks, max_ticks>>
    /\ UdpIdle

-----------------------------------------------------------------------------
(* UDP variant (src/jaw_udp_dynamixel.py) *)

UDefaultArgs == [min_deg |-> 200, max_deg |-> 245, prof_acc |-> 30000, prof_vel |-> 50000,
                 invert |-> FALSE]
UOtherArgs   == [min_deg |-> 350, max_deg |-> 10, prof_acc |-> 30000, prof_vel |-> 50000,
                 invert |-> TRUE]
UArgSet == {UDefaultArgs, UOtherArgs}

\* first byte of a received datagram; None stands for an empty datagram
ByteVals  == {0, 1, 128, 255}
Datagrams == ByteVals \cup {None}

PlcIdle == UNCHANGED <<plcVars, conv>>

InitUdp(A) ==
    /\ u_pc = "init"
    /\ u_args \in A
    /\ u_min_ticks = 0 /\ u_max_ticks = 0
    /\ last_b = None /\ u_data = None /\ u_log = <<>>
    /\ u_last_ok = TRUE

\* lines 63-67
UInit ==
    /\ u_pc = "init"
    /\ \E ok \in BOOLEAN :
         u_log' = <<Op("torque", TORQUE_OFF, TRUE), Op("mode", 3, TRUE),
                    Op("prof_acc", u_args.prof_acc, TRUE),
                    Op("prof_vel", u_args.prof_vel, TRUE),
                    Op("torque", TORQUE_ON, ok)>>
    /\ u_pc' = "read_limits"
    /\ UNCHANGED <<u_args, u_min_ticks, u_max_ticks, last_b, u_data, u_last_ok>>
    /\ PlcIdle

\* lines 70-74 without the swap of lines 75-76
u_pos_limits_noswap(maxReg, rc1, minReg, rc2) ==
    IF rc1 /\ rc2 THEN <<minReg, maxReg>> ELSE <<0, 4095>>

\* lines 70-76
u_pos_limits(maxReg, rc1, minReg, rc2) ==
    LET lo == IF rc1 /\ rc2 THEN minReg ELSE 0
        hi == IF rc1 /\ rc2 THEN maxReg ELSE 4095
    IN  IF lo > hi THEN <<hi, lo>> ELSE <<lo, hi>>

UReadLimits ==
    /\ u_pc = "read_limits"
    /\ \E mx \in MaxPosRegs, mn \in MinPosRegs, rc1 \in BOOLEAN, rc2 \in BOOLEAN :
         /\ u_min_ticks' = u_pos_limits(mx, rc1, mn, rc2)[1]
         /\ u_max_ticks' = u_pos_limits(mx, rc1, mn, rc2)[2]
         /\ u_log' = u_log \o <<Op("read_max_pos", mx, rc1), Op("read_min_pos", mn, rc2)>>
    /\ u_pc' = "recv"
    /\ UNCHANGED <<u_args, last_b, u_data, u_last_ok>>
    /\ PlcIdle

\* lines 96-98
u_byte(d, invert) == IF invert THEN 255 - d ELSE d

\* lines 104-107: deg = sw_min + (b/255.0) * (sw_max - sw_min), as a fraction over 255
u_goal_ticks(a, b, lo, hi) ==
    clamp(u_deg_to_tick(255 * sw_min(a) + b * (sw_max(a) - sw_min(a)), 255), lo, hi)

\* every byte taken as new
u_is_new_always(b, last) == TRUE

\* lines 99-100: a byte equal to last_b is skipped
u_is_new(b, last) == b # last

\* one iteration of the receive loop, lines 92-111
URecv ==
    /\ u_pc = "recv"
    /\ \E d \in Datagrams, ok \in BOOLEAN :
         /\ u_data' = d
         /\ IF d = None
              THEN u_log' = <<>> /\ UNCHANGED <<last_b, u_last_ok>>
              ELSE LET b == u_byte(d, u_args.invert)
                   IN  IF ~u_is_new(b, last_b)
                         THEN u_log' = <<>> /\ UNCHANGED <<last_b, u_last_ok>>
                         ELSE /\ last_b' = b
                              /\ u_log' = <<Op("goal", u_goal_ticks(u_args, b, u_min_ticks,
                                                                  u_max_ticks), ok)>>
                              /\ u_last_ok' = ok
    /\ UNCHANGED <<u_pc, u_args, u_min_ticks, u_max_ticks>>
    /\ PlcIdle

\* the handler is installed at lines 59-60, before the first servo write
UHandlerInstalled == u_pc \in {"init", "read_limits", "recv"}

\* lines 52-57: torque off and closePort, each in its own try / except, then sys.exit(0)
u_cleanup(k1, k2) ==
    <<Op("torque", TORQUE_OFF, k1), Op("close_port", 0, k2), Op("exit", 0, TRUE)>>

USignal ==
    /\ UHandlerInstalled
    /\ \E k1 \in BOOLEAN, k2 \in BOOLEAN :
         u_log' = <<Op("signal", 0, TRUE)>> \o u_cleanup(k1, k2)
    /\ u_pc' = "exited"
    /\ last_b' = None /\ u_data' = None /\ u_last_ok' = TRUE
    /\ UNCHANGED <<u_args, u_min_ticks, u_max_ticks>>
    /\ PlcIdle

-----------------------------------------------------------------------------
(* deg_to_tick of both variants, applied on its own *)

\* degree values num / DegDen, below 0 and beyond one turn included
DegNums == (-360 * DegDen) .. (MaxTurn * 360 * DegDen)

NoConv == [num |-> 0, plc |-> None, udp |-> None, done |-> FALSE]

\* deg_to_tick(num / DegDen) as each variant computes it
Convert ==
    /\ pc = "off" /\ u_pc = "off"
    /\ ~conv.done
    /\ conv' = [num |-> conv.num,
                plc |-> deg_to_tick(conv.num, DegDen),
                udp |-> u_deg_to_tick(conv.num, DegDen),
                done |-> TRUE]
    /\ UNCHANGED <<plcVars, udpVars>>

-----------------------------------------------------------------------------
(* The two programs; one of them runs *)

PlcOff ==
    /\ pc = "off"
    /\ args = DefaultArgs
    /\ vel_lim = 0 /\ acc_lim = 0 /\ min_ticks = 0 /\ max_ticks = 0
    /\ last_seq = None /\ torque_enabled = FALSE
    /\ cmd = ZeroCmd /\ fb = NoFb /\ sts = NoSts /\ log = <<>>
    /\ cmd_read_ok = FALSE
    /\ pre = [torque_enabled |-> FALSE, last_seq |-> None]
    /\ prev = NoPrev /\ seq_goals = [goal |-> 0, prof |-> 0] /\ accepted = None /\ lkg = NoLkg
    /\ mon = TRUE /\ en_hist = <<>> /\ n_on = 0 /\ n_off = 0
    /\ clk = NoClk

UdpOff ==
    /\ u_pc = "off"
    /\ u_args = UDefaultArgs
    /\ u_min_ticks = 0 /\ u_max_ticks = 0
    /\ last_b = None /\ u_data = None /\ u_log = <<>>
    /\ u_last_ok = TRUE

Init ==
    /\ \/ InitPlc({DefaultArgs}) /\ UdpOff
       \/ PlcOff /\ InitUdp(UArgSet)
    /\ conv = NoConv

\* Spec: the loop under every transport fault, every enable / cmd_seq input, with the
\* servo's limit registers at one readable value each
Next ==
    \/ InitTorqueOff
    \/ SetMode
    \/ ReadLimits({1023}, {32767}, {4095}, {0}, {TRUE})
    \/ InitProfile
    \/ InitTorqueOn
    \/ ReadCmd(GateCmds, BOOLEAN)
    \/ Gate(BOOLEAN)
    \/ Apply(BOOLEAN)
    \/ Feedback(PosFbRegs, VelFbRegs, BOOLEAN)
    \/ Status(BOOLEAN)
    \/ Sleep
    \/ Signal
    \/ UInit
    \/ UReadLimits
    \/ URecv
    \/ USignal

Spec == Init /\ [][Next]_vars

\* SpecScale: the same programs with a fault-free loop, over every argument set, every
\* outcome of the limit reads and setpoints in and out of range
InitScale ==
    /\ \/ InitPlc(ArgSet) /\ UdpOff
       \/ PlcOff /\ InitUdp(UArgSet)
    /\ conv = NoConv

NextScale ==
    \/ InitTorqueOff
    \/ SetMode
    \/ ReadLimits(VelLimRegs, AccLimRegs, MaxPosRegs, MinPosRegs, BOOLEAN)
    \/ InitProfile
    \/ InitTorqueOn
    \/ ReadCmd(ScaleCmds, {TRUE})
    \/ Gate({TRUE})
    \/ Apply({TRUE})
    \/ Feedback(PosFbRegs, VelFbRegs, {TRUE})
    \/ Status({TRUE})
    \/ Sleep
    \/ Signal
    \/ UInit
    \/ UReadLimits
    \/ URecv
    \/ USignal

SpecScale == InitScale /\ [][NextScale]_vars

\* the present-position register of a servo that has reached the goal it was last
\* written in this iteration (PosFbRegs when none was written)
EchoRegs ==
    IF Count(log, "goal") = 0 THEN PosFbRegs
    ELSE {log[i].val : i \in {j \in 1 .. Len(log) : log[j].op = "goal"}}

\* SpecSweep: the PLC variant with a fault-free loop and a servo that echoes the goal,
\* over every position setpoint, with the position limits 0..4095 and 0..2400
InitSweep == InitPlc(ArgSet) /\ UdpOff /\ conv = NoConv

NextSweep ==
    \/ InitTorqueOff
    \/ SetMode
    \/ ReadLimits({1023}, {32767}, MaxPosRegs, {0}, {TRUE})
    \/ InitProfile
    \/ InitTorqueOn
    \/ ReadCmd(SweepCmds, {TRUE})
    \/ Gate({TRUE})
    \/ Apply({TRUE})
    \/ Feedback(EchoRegs, VelFbRegs, {TRUE})
    \/ Status({TRUE})
    \/ Sleep

SpecSweep == InitSweep /\ [][NextSweep]_vars

\* SpecFeed: the PLC variant over every feedback register value and read outcome, with
\* a velocity limit of 0 and a degree range of one point among the configurations
InitFeed == InitPlc(ArgSet \cup {FlatArgs}) /\ UdpOff /\ conv = NoConv

NextFeed ==
    \/ InitTorqueOff
    \/ SetMode
    \/ ReadLimits(VelLimRegs, {32767}, {4095}, {0}, {TRUE})
    \/ InitProfile
    \/ InitTorqueOn
    \/ ReadCmd(FeedCmds, BOOLEAN)
    \/ Gate({TRUE})
    \/ Apply({TRUE})
    \/ Feedback(WidePosFbRegs, WideVelFbRegs, BOOLEAN)
    \/ Status(BOOLEAN)
    \/ Sleep

SpecFeed == InitFeed /\ [][NextFeed]_vars

\* SpecTime: the PLC variant with a fault-free loop whose stages take time
InitTime == InitPlc({DefaultArgs}) /\ UdpOff /\ conv = NoConv

NextTime ==
    \/ InitTorqueOff
    \/ SetMode
    \/ ReadLimits({1023}, {32767}, {4095}, {0}, {TRUE})
    \/ InitProfile
    \/ InitTorqueOn
    \/ ReadCmd(TimeCmds, {TRUE})
    \/ Gate({TRUE})
    \/ Apply({TRUE})
    \/ Feedback(PosFbRegs, VelFbRegs, {TRUE})
    \/ Status({TRUE})
    \/ Elapse(Durations)
    \/ Sleep

SpecTime == InitTime /\ [][NextTime]_vars

\* SpecTick: neither program runs; one degree value is converted by both deg_to_tick
InitTick ==
    /\ PlcOff /\ UdpOff
    /\ conv \in [num : DegNums, plc : {None}, udp : {None}, done : {FALSE}]

NextTick == Convert

SpecTick == InitTick /\ [][NextTick]_vars

-----------------------------------------------------------------------------
(* Properties *)

\* the gating step / step 3 of the current iteration has run
Gated   == pc \in {"apply", "feedback", "status", "sleep", "crashed"}
Applied == pc \in {"feedback", "status", "sleep", "crashed"}

Has(l, o, v) == \E i \in 1 .. Len(l) : l[i].op = o /\ l[i].val = v
Idx(l, o, v) == CHOOSE i \in 1 .. Len(l) : l[i].op = o /\ l[i].val = v
Goals(l)     == {i \in 1 .. Len(l) : l[i].op = "goal"}
Profs(l)     == {i \in 1 .. Len(l) : l[i].op \in {"prof_vel", "prof_acc"}}
Torques(l)   == {i \in 1 .. Len(l) : l[i].op = "torque"}

\* this iteration and the one before both observed enable = true and the same cmd_seq
SameSeqTwice ==
    Applied /\ prev.valid /\ prev.enable /\ cmd.enable /\ prev.seq = cmd.seq

\* C1: when two consecutive iterations both observe enable = true and the same cmd_seq,
\* the second issues no goal-position and no profile write, and exactly one goal write
\* and one pair of profile writes have been issued for that sequence value
C1_Deduplication ==
    SameSeqTwice =>
        /\ Goals(log) = {} /\ Profs(log) = {}
        /\ last_seq = cmd.seq
        /\ seq_goals = [goal |-> 1, prof |-> 2]
        /\ prev.goals + Cardinality(Goals(log)) <= 1

C1_Witness == SameSeqTwice /\ prev.goals = 1

\* C2 as claimed: from the loop's initial gate state the observed enable sequence
\* false, true, true, false produces exactly one torque-on and one torque-off write
C2_EnableEdgeAsClaimed ==
    en_hist = EnablePattern => n_on = 1 /\ n_off = 1

\* C2 amended: from the loop's initial gate state (torque_enabled = true, line 205) the
\* sequence false, true, true, false produces exactly one torque-on write and exactly
\* two torque-off writes: the first iteration switches off the torque startup enabled
C2_EnableEdge ==
    /\ en_hist = EnablePattern => n_on = 1 /\ n_off = 2
    /\ en_hist = <<FALSE>> => n_on = 0 /\ n_off = 1
    /\ en_hist = <<FALSE, TRUE, TRUE>> => n_on = 1 /\ n_off = 1

C2_Witness == en_hist = EnablePattern /\ Gated

\* C3: in every iteration a torque-on write is issued iff enable is true and
\* torque_enabled was false, a torque-off write iff enable is false and torque_enabled
\* was true, none when enable equals torque_enabled, and after the gating step
\* torque_enabled equals the observed enable
C3_TorqueOnEdgesOnly ==
    Gated =>
        /\ Has(log, "torque", TORQUE_ON)  <=> (cmd.enable /\ ~pre.torque_enabled)
        /\ Has(log, "torque", TORQUE_OFF) <=> (~cmd.enable /\ pre.torque_enabled)
        /\ cmd.enable = pre.torque_enabled => Torques(log) = {}
        /\ Cardinality(Torques(log)) <= 1
        /\ torque_enabled = cmd.enable

C3_Witness ==
    /\ Gated /\ prev.valid
    /\ cmd.enable /\ ~pre.torque_enabled /\ Has(log, "torque", TORQUE_ON)

\* C4: in every iteration the profile and goal-position writes are issued iff enable is
\* true and (last_seq is None or cmd_seq # last_seq); a cmd_seq below last_seq is
\* accepted like a higher one
C4_NoveltyRule ==
    Applied =>
        LET new == cmd.enable /\ (pre.last_seq = None \/ cmd.seq # pre.last_seq)
        IN  /\ new  => /\ Cardinality(Goals(log)) = 1
                       /\ Count(log, "prof_vel") = 1 /\ Count(log, "prof_acc") = 1
            /\ ~new => Goals(log) = {} /\ Profs(log) = {}

C4_Witness ==
    /\ Applied /\ cmd.enable
    /\ pre.last_seq # None /\ cmd.seq < pre.last_seq
    /\ Goals(log) # {}

\* C5: every goal-position value written to the servo, by either variant, lies in
\* [min_ticks, max_ticks] of the limits established at startup
C5_GoalWithinLimits ==
    /\ \A i \in Goals(log) : min_ticks <= log[i].val /\ log[i].val <= max_ticks
    /\ \A i \in Goals(u_log) : u_min_ticks <= u_log[i].val /\ u_log[i].val <= u_max_ticks

\* a goal that the hardware limit (not the degree range) decided
C5_Witness ==
    /\ Goals(log) # {}
    /\ \E i \in Goals(log) :
         /\ log[i].val = max_ticks
         /\ deg_to_tick(goal_deg(args, cmd.pos, cmd.invert), scale) > max_ticks

\* C6: every profile velocity / acceleration value written to the servo (the startup
\* defaults and each per-command value) lies in [floor, hw_limit] and is never below
\* the configured floor
C6_ProfileWithinFloorAndLimit ==
    pc \notin {"off", "init_torque_off", "set_mode", "read_limits"} =>
        \A i \in 1 .. Len(log) :
            /\ log[i].op = "prof_vel" =>
                 args.vel_floor <= log[i].val /\ log[i].val <= vel_lim
            /\ log[i].op = "prof_acc" =>
                 args.acc_floor <= log[i].val /\ log[i].val <= acc_lim

\* C7: no profile or goal-position write is issued while the observed enable is false;
\* whenever a goal-position write is issued torque_enabled is true, and the torque-on
\* write, if this iteration needed one, precedes it
C7_DisabledNeverCommanded ==
    Applied =>
        /\ ~cmd.enable => Goals(log) = {} /\ Profs(log) = {}
        /\ Goals(log) # {} =>
             /\ torque_enabled
             /\ ~pre.torque_enabled =>
                  /\ Has(log, "torque", TORQUE_ON)
                  /\ \A i \in Goals(log) \cup Profs(log) : Idx(log, "torque", TORQUE_ON) < i

C7_Witness ==
    Applied /\ prev.valid /\ Goals(log) # {} /\ ~pre.torque_enabled

\* C8: in an iteration whose PLC command read fails the gate state (torque_enabled,
\* last_seq) is left unchanged and no torque, profile or goal-position write is issued
C8_ReadFailureIsNoCommand ==
    (Gated /\ ~cmd_read_ok) =>
        /\ torque_enabled = pre.torque_enabled
        /\ last_seq = pre.last_seq
        /\ Torques(log) = {} /\ Goals(log) = {} /\ Profs(log) = {}

\* C9: when a feedback read fails, the position / velocity feedback written to the
\* status equals the value of the last iteration whose read succeeded
C9_FeedbackLastKnownGood ==
    sts.written =>
        /\ (~fb.rcP /\ lkg.pos_valid) => sts.pos_fb = lkg.pos
        /\ (~fb.rcV /\ lkg.vel_valid) => sts.vel_fb = lkg.vel

\* C10: the status field ack_seq is the cmd_seq of the most recently applied command
\* (the one a goal write was last issued for), not that of a later command that was
\* observed and not applied; it is 0 before any command has been applied
C10_AckIsLastAccepted ==
    sts.written => sts.ack_seq = (IF accepted = None THEN 0 ELSE accepted)

C10_Witness ==
    /\ sts.written /\ cmd_read_ok /\ ~cmd.enable
    /\ accepted # None /\ cmd.seq # accepted
    /\ sts.ack_seq = accepted

\* the command source was lost in the iteration before (plc.db_read raised) and is
\* back in this one
Reconnected == Applied /\ prev.valid /\ ~prev.read_ok /\ cmd_read_ok

\* C11: after the command-source connection is lost and re-established last_seq is
\* None and torque_enabled is false, so a command with enable = true whose cmd_seq was
\* already applied before the loss is applied again
C11_ReconnectResetsGate ==
    Reconnected =>
        /\ pre.last_seq = None
        /\ ~pre.torque_enabled
        /\ cmd.enable => Cardinality(Goals(log)) = 1

\* the startup read of a limit register, as logged by ReadLimits
LimitRead(o) == log[CHOOSE i \in 1 .. Len(log) : log[i].op = o]

LimitsRead == Count(log, "read_max_pos") = 1

\* C12: limit discovery degrades per field: a failed read replaces only that field
\* with its default (velocity / acceleration default, 0 for min position, 4095 for max
\* position) and every successfully read field keeps its read value; a failed read of
\* only one of min / max position leaves the other at its read value
C12_LimitsDegradePerField ==
    LimitsRead =>
        LET v  == LimitRead("read_vel_lim")
            a  == LimitRead("read_acc_lim")
            mx == LimitRead("read_max_pos")
            mn == LimitRead("read_min_pos")
        IN  /\ vel_lim = (IF v.ok THEN v.val ELSE args.prof_vel_default)
            /\ acc_lim = (IF a.ok THEN a.val ELSE args.prof_acc_default)
            /\ {min_ticks, max_ticks} = {IF mn.ok THEN mn.val ELSE 0,
                                         IF mx.ok THEN mx.val ELSE 4095}

\* limit discovery is done: PLC variant past line 183, UDP variant past line 76
Discovered  == pc \notin {"off", "init_torque_off", "set_mode", "read_limits"}
UDiscovered == u_pc = "recv"

\* C13: after limit discovery min_ticks <= max_ticks, for every combination of read
\* outcomes and register values, in every later state, in both variants
C13_LimitsOrdered ==
    /\ Discovered  => 0 <= min_ticks /\ min_ticks <= max_ticks
    /\ UDiscovered => 0 <= u_min_ticks /\ u_min_ticks <= u_max_ticks

\* the servo returned an inverted pair and the pair was swapped
C13_Witness ==
    /\ UDiscovered
    /\ \E i, j \in 1 .. Len(u_log) :
         /\ u_log[i] = Op("read_max_pos", 2400, TRUE)
         /\ u_log[j] = Op("read_min_pos", 2600, TRUE)
    /\ u_min_ticks = 2400 /\ u_max_ticks = 2600

ServoWrites(l) ==
    {i \in 1 .. Len(l) :
        l[i].op \in {"torque", "mode", "watchdog", "prof_vel", "prof_acc", "goal"}}

At(l, o) == {i \in 1 .. Len(l) : l[i].op = o}

\* C14: a termination signal is handled in every state after the handler is installed;
\* the torque-off write is attempted before the serial port is closed, the port is
\* closed before the PLC connection is released, every step is attempted even if an
\* earlier one raises, the process then exits, and no servo write follows the closing
\* of the port
C14_OrderlyShutdown ==
    /\ HandlerInstalled  => ENABLED Signal
    /\ UHandlerInstalled => ENABLED USignal
    /\ pc = "exited" =>
         /\ \E t \in At(log, "torque"), c \in At(log, "close_port"),
               d \in At(log, "plc_disconnect"), x \in At(log, "exit") :
                /\ log[t].val = TORQUE_OFF
                /\ t < c /\ c < d /\ d < x /\ x = Len(log)
         /\ \A c \in At(log, "close_port"), w \in ServoWrites(log) : w < c
         /\ ~ENABLED Next
    /\ u_pc = "exited" =>
         /\ \E t \in At(u_log, "torque"), c \in At(u_log, "close_port"),
               x \in At(u_log, "exit") :
                /\ u_log[t].val = TORQUE_OFF
                /\ t < c /\ c < x /\ x = Len(u_log)
         /\ \A c \in At(u_log, "close_port"), w \in ServoWrites(u_log) : w < c
         /\ ~ENABLED Next

\* the torque-off write and the closing of the port both raised, the PLC connection
\* was still released and the process exited
C14_Witness ==
    /\ pc = "exited"
    /\ \E t \in At(log, "torque"), c \in At(log, "close_port") : ~log[t].ok /\ ~log[c].ok
    /\ At(log, "plc_disconnect") # {} /\ At(log, "exit") # {}

IsInitWrite(o) == o.op \in {"torque", "mode", "prof_vel", "prof_acc", "goal"}

\* the servo writes of a log, the optional bus-watchdog write left out
InitWrites(l) == SelectSeq(l, IsInitWrite)

\* w is a prefix of: torque-off, mode = position, the two profile writes, torque-on
InitOrder(w) ==
    /\ Len(w) <= 5
    /\ Len(w) >= 1 => w[1].op = "torque" /\ w[1].val = TORQUE_OFF
    /\ Len(w) >= 2 => w[2].op = "mode" /\ w[2].val = OPERATING_MODE_POSITION
    /\ Len(w) >= 3 => w[3].op \in {"prof_vel", "prof_acc"}
    /\ Len(w) >= 4 => w[4].op \in {"prof_vel", "prof_acc"} /\ w[4].op # w[3].op
    /\ Len(w) >= 5 => w[5].op = "torque" /\ w[5].val = TORQUE_ON

\* the log still holds the startup writes (the loop's log begins with the command read)
InStartup ==
    /\ pc \in {"set_mode", "read_limits", "init_profile", "init_torque_on", "read_cmd"}
    /\ log # <<>>
UInStartup == u_pc = "read_limits"

\* C15: at startup the first servo write is torque-off, then the operating mode is set
\* to position control, then the initial profile velocity and acceleration are written,
\* each within [floor, hw_limit], and only then torque-on; no goal-position write
\* comes before that torque-on
C15_InitOrder ==
    /\ InStartup =>
         /\ InitOrder(InitWrites(log))
         /\ pc = "read_cmd" => Len(InitWrites(log)) = 5
         /\ \A i \in At(log, "prof_vel") :
                args.vel_floor <= log[i].val /\ log[i].val <= vel_lim
         /\ \A i \in At(log, "prof_acc") :
                args.acc_floor <= log[i].val /\ log[i].val <= acc_lim
    /\ UInStartup =>
         /\ InitOrder(InitWrites(u_log))
         /\ Len(InitWrites(u_log)) = 5

\* the position of an operation in one iteration of the loop (lines 208-302)
Stage(o) ==
    CASE o = "cmd_read" -> 1
      [] o = "torque"   -> 2
      [] o = "prof_vel" -> 3
      [] o = "prof_acc" -> 4
      [] o = "goal"     -> 5
      [] o = "read_pos" -> 6
      [] o = "read_vel" -> 7
      [] o = "status"   -> 8
      [] OTHER          -> 0

InLoop == pc \in {"gate", "apply", "feedback", "status", "sleep", "crashed"}

\* the operations of the running iteration are in stage order, each stage at most once
StagesOrdered ==
    InLoop =>
        /\ log # <<>> /\ log[1].op = "cmd_read"
        /\ \A i, j \in 1 .. Len(log) : i < j => Stage(log[i].op) < Stage(log[j].op)
        /\ pc \in {"apply", "feedback", "status", "sleep"} =>
             (Goals(log) # {} <=> (At(log, "prof_vel") # {} /\ At(log, "prof_acc") # {}))
        /\ pc \in {"status", "sleep", "crashed"} =>
             At(log, "read_pos") # {} /\ At(log, "read_vel") # {}
        /\ pc = "sleep" => log[Len(log)].op = "status"

\* C16: inside every iteration of the PLC loop the stages run in the order command
\* read, torque gating, profile velocity write, profile acceleration write, goal
\* write, position feedback read, velocity feedback read, status write; the command
\* read of the next iteration starts only after the status write of this one
C16_StageOrder ==
    [][ /\ StagesOrdered'
        /\ (pc' = "gate" /\ prev'.valid) =>
              /\ pc = "read_cmd" /\ log = <<>>
              /\ log' = <<Op("cmd_read", 0, cmd_read_ok')>>
        /\ (pc' = "read_cmd" /\ pc # "init_torque_on") =>
              /\ pc = "sleep" /\ sts.written
              /\ log[Len(log)].op = "status" ]_vars

\* an iteration in which every stage ran
C16_Witness ==
    /\ pc = "sleep" /\ prev.valid
    /\ Len(log) = 8 /\ sts.written

\* the running iteration is over: its status step has run (or has raised)
CycleOver == pc \in {"sleep", "crashed"}

\* C17: every iteration of the PLC loop performs exactly one position-feedback read,
\* one velocity-feedback read and one status-write attempt, whether or not a command
\* was applied, the command read failed or a servo write failed
C17_OneFeedbackOneStatus ==
    CycleOver =>
        /\ Count(log, "read_pos") = 1
        /\ Count(log, "read_vel") = 1
        /\ Count(log, "status") = 1

\* a setpoint limited to 0..1000
InRange(sp) == IF sp < 0 THEN 0 ELSE IF sp > scale THEN scale ELSE sp

ValOf(l, o) == l[CHOOSE i \in 1 .. Len(l) : l[i].op = o].val

\* C18: for every position, velocity and acceleration setpoint of the signed 16-bit
\* range the goal ticks and the profile values written for the setpoint are those
\* computed for the setpoint limited to 0..1000
C18_ClampIdempotent ==
    (Applied /\ Goals(log) # {}) =>
        /\ ValOf(log, "goal") =
             goal_ticks(args, InRange(cmd.pos), cmd.invert, min_ticks, max_ticks)
        /\ ValOf(log, "prof_vel") = profile(args.vel_floor, InRange(cmd.vel), vel_lim)
        /\ ValOf(log, "prof_acc") = profile(args.acc_floor, InRange(cmd.acc), acc_lim)

\* a command below 0 and one above 1000 that was applied
C18_Witness ==
    /\ Applied /\ Goals(log) # {}
    /\ cmd.pos = I16_MAX /\ ~cmd.invert
    /\ ValOf(log, "goal") = goal_ticks(args, scale, FALSE, min_ticks, max_ticks)
    /\ ValOf(log, "goal") # min_ticks /\ ValOf(log, "goal") # max_ticks

\* the servo has echoed the goal written in this iteration for a setpoint of 0..1000
Echoed ==
    /\ pc = "status" /\ Goals(log) # {}
    /\ fb.rcP /\ fb.pos_ticks = ValOf(log, "goal")
    /\ cmd.pos \in 0 .. scale

\* |position feedback - position setpoint| is at most one tick of the software range,
\* in setpoint units: 1000 * (360 / 4096) / (sw_max - sw_min)
WithinOneTick ==
    Abs(fb.pos - cmd.pos) * TICKS_PER_REV * (sw_max(args) - sw_min(args)) <= 360 * scale

\* the hardware position limits did not change the goal
GoalUnclamped ==
    LET t == deg_to_tick(goal_deg(args, cmd.pos, cmd.invert), scale)
    IN  min_ticks <= t /\ t <= max_ticks

C20_InversionFlipsEndpoints ==
    (Applied /\ Goals(log) # {} /\ cmd.pos \in 0 .. scale) =>
        /\ ValOf(log, "goal") =
             goal_ticks(args, scale - cmd.pos, ~cmd.invert, min_ticks, max_ticks)
        /\ ( /\ args = DefaultArgs /\ min_ticks = 0 /\ max_ticks = 4095
             /\ (cmd.pos = 0 /\ ~cmd.invert) \/ (cmd.pos = scale /\ cmd.invert) )
           => ValOf(log, "goal") = deg_to_tick(200, 1)

C20_Witness ==
    /\ Applied /\ Goals(log) # {}
    /\ args = DefaultArgs /\ min_ticks = 0 /\ max_ticks = 4095
    /\ cmd.pos = scale /\ cmd.invert
    /\ ValOf(log, "goal") = 2276

\* deg_to_tick of the degree value d has been computed by both variants
Converted(d) == conv.done /\ conv.num = d * DegDen

\* C21: deg_to_tick(0) = 0, deg_to_tick(360) = 0 (the value wraps) and
\* deg_to_tick(180) = 2048, in the PLC variant and in the UDP variant
C21_TickBoundaries ==
    /\ Converted(0)   => conv.plc = 0    /\ conv.udp = 0
    /\ Converted(360) => conv.plc = 0    /\ conv.udp = 0
    /\ Converted(180) => conv.plc = 2048 /\ conv.udp = 2048

C21_Witness == Converted(360) /\ conv.plc = 0 /\ conv.udp = 0

\* the iteration before observed enable = false with a cmd_seq other than last_seq,
\* and this one observes enable = true with that same cmd_seq
StaleSeq ==
    /\ Applied /\ prev.valid /\ prev.read_ok /\ cmd_read_ok
    /\ ~prev.enable /\ prev.seq # pre.last_seq
    /\ cmd.enable /\ cmd.seq = prev.seq

\* C22 as claimed: a command with enable = true whose cmd_seq was observed before with
\* enable = false (last_seq was not updated then) is not novel: no profile and no
\* goal-position write is issued for it
C22_StaleSeqDroppedAsClaimed ==
    StaleSeq => Goals(log) = {} /\ Profs(log) = {}

\* C22 amended: a command with enable = false leaves last_seq as it was, so a later
\* command with enable = true and that same cmd_seq differs from last_seq, is novel
\* and is applied: one pair of profile writes, one goal write, last_seq = cmd_seq
C22_StaleSeqApplied ==
    StaleSeq =>
        /\ Cardinality(Goals(log)) = 1
        /\ Count(log, "prof_vel") = 1 /\ Count(log, "prof_acc") = 1
        /\ last_seq = cmd.seq
        /\ pre.last_seq # cmd.seq

C22_Witness == StaleSeq /\ pre.last_seq # None /\ Goals(log) # {}

\* C23: when a command is applied last_seq becomes its cmd_seq whether the goal write
\* succeeded or failed, and a goal write that failed is not repeated in the next
\* iteration that carries the same cmd_seq
C23_FailedWriteConsumesSeq ==
    /\ (Applied /\ Goals(log) # {}) => last_seq = cmd.seq
    /\ (Applied /\ prev.valid /\ prev.goal_failed /\ cmd.enable /\ cmd.seq = prev.seq) =>
          /\ Goals(log) = {} /\ Profs(log) = {}
          /\ last_seq = cmd.seq

\* the goal write of the iteration before failed and this one observes the same
\* command again
C23_Witness ==
    /\ Applied /\ prev.valid /\ prev.goal_failed
    /\ cmd_read_ok /\ cmd.enable /\ cmd.seq = prev.seq
    /\ Goals(log) = {}

\* the feedback of the running iteration has been read and normalised
FedBack == pc \in {"status", "sleep", "crashed"}

\* C24: in every iteration the position feedback and the velocity feedback put into
\* the status are integers of 0..1000, for every register value and read outcome,
\* either invert, a velocity limit of 0 and a degree range of one point, where the
\* position feedback is 0, or 1000 when inverted
C24_StatusRanges ==
    /\ FedBack =>
         /\ fb.pos \in 0 .. 1000 /\ fb.vel \in 0 .. 1000
         /\ sw_min(args) = sw_max(args) => fb.pos = (IF cmd.invert THEN 1000 ELSE 0)
    /\ sts.written =>
         /\ sts.pos_fb = fb.pos /\ sts.vel_fb = fb.vel
         /\ sts.pos_fb \in 0 .. 1000 /\ sts.vel_fb \in 0 .. 1000

\* a velocity limit of 0 and a velocity far above it: the feedback is held at 1000
C24_Witness ==
    /\ sts.written /\ vel_lim = 0 /\ fb.rcV /\ fb.vel_raw = 2000000
    /\ sts.vel_fb = 1000
    /\ sw_min(args) = sw_max(args) /\ cmd.invert /\ sts.pos_fb = 1000

\* C25: deg_to_tick maps every degree value into 0..4095, the values just below 360
\* whose scaled value rounds up included, and the PLC variant's deg_to_tick and the
\* UDP variant's return the same tick for every degree value
C25_TickRange ==
    conv.done =>
        /\ conv.plc \in 0 .. 4095
        /\ conv.udp \in 0 .. 4095
        /\ conv.plc = conv.udp

\* an iteration has ended and the next has not begun
Slept == pc = "read_cmd" /\ prev.valid

\* C26: at the end of each iteration the loop sleeps max(0, period - elapsed), elapsed
\* counted from that iteration's own start, so the start-to-start interval is never
\* shorter than the period, and an iteration after one that overran has the normal
\* length: nothing of the lost time is made up
C26_NoCatchUp ==
    Slept =>
        /\ clk.slept = Max2(0, dt - clk.last_elapsed)
        /\ clk.interval = Max2(dt, clk.last_elapsed)
        /\ clk.interval >= dt
        /\ clk.over <=> clk.slept = 0 /\ clk.interval > dt
        /\ (clk.prev_over /\ ~clk.over) => clk.interval = dt

\* an iteration that overran, followed by one that took less than the period
C26_Witness ==
    /\ Slept /\ clk.prev_over /\ ~clk.over
    /\ clk.last_elapsed > 0 /\ clk.last_elapsed < dt
    /\ clk.slept = dt - clk.last_elapsed

\* a torque write of this iteration failed
TorqueFailed == \E i \in Torques(log) : ~log[i].ok

\* C27: torque_enabled takes the new value whether or not the torque write succeeded:
\* after a failed torque write no further torque write is issued while the observed
\* enable stays the same, and a new command is applied (its goal written) although the
\* torque-on write failed
C27_FlagIgnoresWriteResult ==
    /\ (Gated /\ TorqueFailed) =>
          torque_enabled = cmd.enable /\ torque_enabled # pre.torque_enabled
    /\ (Gated /\ prev.valid /\ prev.torque_failed /\ cmd.enable = prev.enable) =>
          Torques(log) = {} /\ torque_enabled = cmd.enable
    /\ (Applied /\ TorqueFailed /\ cmd.enable
          /\ (pre.last_seq = None \/ cmd.seq # pre.last_seq)) =>
          Cardinality(Goals(log)) = 1
    /\ (Applied /\ prev.valid /\ prev.torque_failed /\ prev.enable /\ cmd.enable
          /\ cmd.seq # pre.last_seq) =>
          Cardinality(Goals(log)) = 1 /\ Torques(log) = {}

\* the torque-on write of the iteration before failed; this one writes a goal and
\* does not repeat the torque-on
C27_Witness ==
    /\ Applied /\ prev.valid /\ prev.torque_failed /\ prev.enable
    /\ cmd.enable /\ Goals(log) # {} /\ Torques(log) = {}

\* C28: the status bit hw_ok is 1 iff both feedback reads of the iteration returned
\* communication success and torque_enabled is true after the gating step; it is 0 in
\* every iteration whose observed enable is false, the ones whose command read failed
\* included; sw_ok is 1 in every status written
C28_HwOkIff ==
    sts.written =>
        /\ sts.hw_ok <=> (fb.rcP /\ fb.rcV /\ torque_enabled)
        /\ ~cmd.enable => ~sts.hw_ok
        /\ ~cmd_read_ok => ~sts.hw_ok
        /\ sts.sw_ok

\* both feedback reads succeeded and the command read failed: hw_ok is 0
C28_Witness ==
    /\ sts.written /\ fb.rcP /\ fb.rcV
    /\ ~cmd_read_ok /\ ~sts.hw_ok /\ sts.sw_ok

\* C29: in the UDP variant a goal-position write is issued for a received datagram
\* iff it is not empty and its first byte (after the 255 - b inversion, when set)
\* differs from last_b, the byte of the datagram processed before; the first datagram
\* that is not empty always causes a write, and the byte is recorded whether the write
\* succeeded or not, so that the same byte again is not written again
C29_UdpDedup ==
    [][ (u_pc = "recv" /\ u_pc' = "recv") =>
          /\ Goals(u_log') # {} <=>
                (u_data' # None /\ u_byte(u_data', u_args.invert) # last_b)
          /\ Cardinality(Goals(u_log')) <= 1
          /\ (last_b = None /\ u_data' # None) => Goals(u_log') # {}
          /\ u_data' # None => last_b' = u_byte(u_data', u_args.invert)
          /\ u_data' = None => last_b' = last_b
          /\ (u_data' # None /\ ~u_last_ok /\ u_byte(u_data', u_args.invert) = last_b)
                => Goals(u_log') = {} ]_vars

\* the goal write for this byte failed and the byte has come again: nothing is written
C29_Witness ==
    /\ u_pc = "recv" /\ ~u_last_ok
    /\ u_data # None /\ u_byte(u_data, u_args.invert) = last_b
    /\ u_log = <<>>

====
